---- MODULE Spec2Model ----
(***************************************************************************)
(* Paraguay RUC numbers (src/py/ruc.ts): clean / compact / format /        *)
(* validate.  A string is a sequence of one-character strings.             *)
(***************************************************************************)
EXTENDS Integers, Sequences, FiniteSets, TLC

VARIABLES input, call, arg, result

vars == <<input, call, arg, result>>

(* ------------------------------ characters ----------------------------- *)

DigitChars == <<"0", "1", "2", "3", "4", "5", "6", "7", "8", "9">>

Digits == {DigitChars[i] : i \in 1..10}

\* the separators ruc.ts asks cleanUnicode to delete: the string " -"
DeleteChars == {" ", "-"}

\* a character that is neither a digit nor a separator
Letter == "X"

\* a unicode whitespace variant, collapsed to nothing by the cleaning step
UnicodeSpace == "NBSP"

\* malformed unicode content (an unpaired surrogate), rejected by the cleaning step
Malformed == "SURROGATE"

NoError == "null"

(* ------------------------- JavaScript primitives ----------------------- *)

NaN == -1

Max(a, b) == IF a > b THEN a ELSE b

Min(a, b) == IF a < b THEN a ELSE b

\* String.prototype.substr(start, length)
substr2(s, start, length) ==
    LET from == IF start < 0 THEN Max(Len(s) + start, 0) ELSE Min(start, Len(s))
        n    == Min(Max(length, 0), Len(s) - from)
    IN  SubSeq(s, from + 1, from + n)

\* String.prototype.substr(start)
substr1(s, start) ==
    LET from == IF start < 0 THEN Max(Len(s) + start, 0) ELSE Min(start, Len(s))
    IN  SubSeq(s, from + 1, Len(s))

\* Array.prototype.reverse
reverse(a) == [i \in 1..Len(a) |-> a[Len(a) + 1 - i]]

\* value of one decimal digit character
DigitVal(c) == CHOOSE n \in 0..9 : DigitChars[n + 1] = c

\* parseInt(s, 10): the value of the longest leading run of digits, NaN if none
RECURSIVE parsePrefix(_, _, _)
parsePrefix(s, i, acc) ==
    IF i > Len(s) \/ s[i] \notin Digits
    THEN acc
    ELSE parsePrefix(s, i + 1, acc * 10 + DigitVal(s[i]))

parseInt(s) ==
    IF Len(s) = 0 \/ s[1] \notin Digits THEN NaN ELSE parsePrefix(s, 1, 0)

\* a < b and a > b on JavaScript numbers: false when either side is NaN
Lt(a, b) == a # NaN /\ b # NaN /\ a < b

Gt(a, b) == a # NaN /\ b # NaN /\ a > b

\* String(n) for 0 <= n < 100: the decimal digits of n, no leading zero
String(n) ==
    IF n < 10 THEN <<DigitChars[n + 1]>>
    ELSE <<DigitChars[(n \div 10) + 1], DigitChars[(n % 10) + 1]>>

(* ------------------------------- ../util ------------------------------- *)

\* cleanUnicode(value, deletechars) -> [value, error]
cleanUnicode(value, deletechars) ==
    IF \E i \in 1..Len(value) : value[i] = Malformed
    THEN <<<<>>, "InvalidFormat">>
    ELSE <<SelectSeq(value, LAMBDA c : c \notin deletechars /\ c # UnicodeSpace),
           NoError>>

\* isdigits(value): every character is an ASCII decimal digit
isdigits(value) ==
    Len(value) > 0 /\ \A i \in 1..Len(value) : value[i] \in Digits

\* splitAt(value, idx) -> [value before idx, value from idx]
splitAt(value, idx) == <<substr2(value, 0, idx), substr1(value, idx)>>

(* ------------------------------- ruc.ts -------------------------------- *)

MinLength == 5

MaxLength == 9

Threshold == 80000000

\* mutant: only the space is deleted
clean_spaceOnly(str) == cleanUnicode(str, {" "})

clean(str) == cleanUnicode(str, DeleteChars)

\* a call's outcome: a returned value or a thrown error
Return(v) == [kind |-> "return", value |-> v]

Throw(e) == [kind |-> "throw", error |-> e]

Failure(e) == [isValid |-> FALSE, error |-> e]

compact(str) ==
    LET value == clean(str)[1]
        err   == clean(str)[2]
    IN  IF err # NoError THEN Throw(err) ELSE Return(value)

\* mutant: a string too short to have a front is returned as it is
formatValue_guarded(value) ==
    IF Len(value) < 2 THEN value
    ELSE substr2(value, 0, Len(value) - 1) \o <<"-">> \o substr1(value, Len(value) - 1)

formatValue(value) ==
    substr2(value, 0, Len(value) - 1) \o <<"-">> \o substr1(value, Len(value) - 1)

\* the error of clean is dropped ("const [value] = clean(input)"): on a
\* normalization failure the value cleanUnicode gives back is formatted
format(str) == Return(formatValue(clean(str)[1]))

\* mutant: the upper bound is off by one
lengthOk_offByOne(value) == ~(Len(value) < MinLength \/ Len(value) > MaxLength + 1)

lengthOk(value) == ~(Len(value) < MinLength \/ Len(value) > MaxLength)

\* front.split("").reverse().map(parseInt).reduce((acc, digit, idx) => acc + digit * (idx + 2), 0)
RECURSIVE reduce(_, _, _)
reduce(a, idx, acc) ==
    IF idx >= Len(a) THEN acc
    ELSE reduce(a, idx + 1, acc + a[idx + 1] * (idx + 2))

sum(front) ==
    LET rev == reverse(front)
        ds  == [i \in 1..Len(rev) |-> parseInt(<<rev[i]>>)]
    IN  reduce(ds, 0, 0)

\* mutant: the final "% 10" is missing
digit_noMod10(front) == String(11 - (sum(front) % 11))

digit(front) == String((11 - (sum(front) % 11)) % 10)

\* mutant: "<=" instead of "<"
isIndividual_orEqual(front) ==
    parseInt(front) # NaN /\ parseInt(front) <= Threshold

isIndividual(front) == Lt(parseInt(front), Threshold)

\* mutant: ">=" instead of ">"
isCompany_orEqual(front) ==
    Len(front) = 8 /\ parseInt(front) # NaN /\ parseInt(front) >= Threshold

isCompany(front) == Len(front) = 8 /\ Gt(parseInt(front), Threshold)

\* mutant: the check digit is not compared
checked_noCompare(value) ==
    LET front == splitAt(value, Len(value) - 1)[1]
    IN  [isValid      |-> TRUE,
         compact      |-> value,
         isIndividual |-> isIndividual(front),
         isCompany    |-> isCompany(front)]

checked(value) ==
    LET front == splitAt(value, Len(value) - 1)[1]
        check == splitAt(value, Len(value) - 1)[2]
    IN  IF check # digit(front)
        THEN Failure("InvalidChecksum")
        ELSE [isValid      |-> TRUE,
              compact      |-> value,
              isIndividual |-> isIndividual(front),
              isCompany    |-> isCompany(front)]

\* mutant: the digit test is missing
validate_noDigitTest(str) ==
    LET value == clean(str)[1]
        error == clean(str)[2]
    IN  IF error # NoError THEN Return(Failure(error))
        ELSE IF ~lengthOk(value) THEN Return(Failure("InvalidLength"))
        ELSE Return(checked(value))

\* mutant: the digit test comes before the length test
validate_digitsFirst(str) ==
    LET value == clean(str)[1]
        error == clean(str)[2]
    IN  IF error # NoError THEN Return(Failure(error))
        ELSE IF ~isdigits(value) THEN Return(Failure("InvalidComponent"))
        ELSE IF ~lengthOk(value) THEN Return(Failure("InvalidLength"))
        ELSE Return(checked(value))

validate(str) ==
    LET value == clean(str)[1]
        error == clean(str)[2]
    IN  IF error # NoError THEN Return(Failure(error))
        ELSE IF ~lengthOk(value) THEN Return(Failure("InvalidLength"))
        ELSE IF ~isdigits(value) THEN Return(Failure("InvalidComponent"))
        ELSE Return(checked(value))

(* ------------------------------- inputs -------------------------------- *)

\* longest front drawn (the string without its last character)
MaxFront == 9

\* every string over the whole alphabet is drawn up to this length
MaxShort == 2

\* fronts of this length (the shortest accepted) are drawn over all ten digits
FullFront == MinLength - 1

Alphabet == Digits \cup DeleteChars \cup {Letter, UnicodeSpace, Malformed}

SeqsUpTo(S, n) == UNION {[1..k -> S] : k \in 0..n}

FrontDigits == {"0", "8"}

Fronts == SeqsUpTo(FrontDigits, MaxFront) \cup {<<"1", "2", "3", "4", "5", "6">>}

FullFronts == [1..FullFront -> Digits]

\* the ways a caller writes a number with front f and last character c
Layouts(f, c) ==
    { f \o <<c>>,
      f \o <<"-", c>>,
      <<" ">> \o f \o <<UnicodeSpace, "-", " ", c>>,
      <<Letter>> \o f \o <<c>>,
      f \o <<Malformed, c>> }

Inputs ==
    SeqsUpTo(Alphabet, MaxShort)
        \cup UNION {Layouts(f, c) : f \in Fronts, c \in Digits \cup {Letter}}
        \cup {f \o <<c>> : f \in FullFronts, c \in Digits}

(* ---------------------------- state machine ---------------------------- *)

Init ==
    /\ input \in Inputs
    /\ call = "none"
    /\ arg = <<>>
    /\ result = [kind |-> "none"]

Validate ==
    /\ call = "none"
    /\ call' = "validate"
    /\ arg' = input
    /\ result' = validate(input)
    /\ UNCHANGED input

Format ==
    /\ call = "none"
    /\ call' = "format"
    /\ arg' = input
    /\ result' = format(input)
    /\ UNCHANGED input

Compact ==
    /\ call = "none"
    /\ call' = "compact"
    /\ arg' = input
    /\ result' = compact(input)
    /\ UNCHANGED input

\* the caller passes the formatted number back to compact
CompactFormatted ==
    /\ call = "format"
    /\ result.kind = "return"
    /\ call' = "compact(format)"
    /\ arg' = result.value
    /\ result' = compact(result.value)
    /\ UNCHANGED input

Next == Validate \/ Format \/ Compact \/ CompactFormatted

Spec == Init /\ [][Next]_vars

(* ------------------------- properties: helpers ------------------------- *)

IsDigitString(s) == \A i \in 1..Len(s) : s[i] \in Digits

Front(s) == SubSeq(s, 1, Len(s) - 1)

Last(s) == s[Len(s)]

\* sum of digit * (0-based position + 2) over the reversed digits of f:
\* the digit at index i of f stands at position Len(f) - i of the reversal
RECURSIVE WeightedSumFrom(_, _)
WeightedSumFrom(f, i) ==
    IF i > Len(f) THEN 0
    ELSE DigitVal(f[i]) * ((Len(f) - i) + 2) + WeightedSumFrom(f, i + 1)

WeightedSum(f) == WeightedSumFrom(f, 1)

\* decimal value of a digit string
RECURSIVE DecimalValue(_)
DecimalValue(f) ==
    IF Len(f) = 0 THEN 0 ELSE 10 * DecimalValue(Front(f)) + DigitVal(Last(f))

ExpectedDigit(f) == DigitChars[((11 - (WeightedSum(f) % 11)) % 10) + 1]

Returned == result.kind = "return"

Succeeded == Returned /\ result.value.isValid

FailedWith(e) == Returned /\ result.value = Failure(e)

\* the compacted string of the argument, when normalization succeeds
Normalized == clean(arg)[2] = NoError

Compacted == clean(arg)[1]

(* ------------------------------ properties ----------------------------- *)

\* C1: a digit-only string of length 5 to 9 whose last digit is
\* (11 - (sum mod 11)) mod 10 of its front is accepted, with compact = the string
C1_CorrectCheckDigitAccepted ==
    (/\ call = "validate"
     /\ IsDigitString(arg)
     /\ Len(arg) >= 5 /\ Len(arg) <= 9
     /\ Last(arg) = ExpectedDigit(Front(arg)))
        => (Succeeded /\ result.value.compact = arg)

\* "1234561": the front sums to 77, a multiple of 11, and check digit 1 is accepted
C1_Witness ==
    /\ call = "validate"
    /\ arg = <<"1", "2", "3", "4", "5", "6", "1">>
    /\ WeightedSum(Front(arg)) = 77
    /\ Succeeded

\* C2: when a digit-only string of length 5 to 9 is accepted, the same front
\* with any of the other 9 digits as last digit is rejected with InvalidChecksum
C2_OtherCheckDigitsRejected ==
    (/\ call = "validate"
     /\ IsDigitString(arg)
     /\ Len(arg) >= 5 /\ Len(arg) <= 9
     /\ Succeeded)
        => \A d \in Digits \ {Last(arg)} :
               validate(Front(arg) \o <<d>>) = Return(Failure("InvalidChecksum"))

C2_Witness ==
    /\ call = "validate"
    /\ IsDigitString(arg)
    /\ Len(arg) = 9
    /\ Last(arg) = "0"
    /\ Succeeded

\* C3: a compacted string shorter than 5 or longer than 9 fails with
\* InvalidLength, whatever its characters and its last character
C3_LengthChecked ==
    (/\ call = "validate"
     /\ Normalized
     /\ (Len(Compacted) < 5 \/ Len(Compacted) > 9))
        => FailedWith("InvalidLength")

\* a 10-digit string with a correct check digit is rejected for its length
C3_Witness ==
    /\ call = "validate"
    /\ IsDigitString(arg)
    /\ Len(arg) = 10
    /\ Last(arg) = ExpectedDigit(Front(arg))
    /\ FailedWith("InvalidLength")

\* C4 as stated: a compacted string with a non-digit character fails with
\* InvalidComponent, whatever its length
C4_NonDigitAnyLength ==
    (/\ call = "validate"
     /\ Normalized
     /\ ~IsDigitString(Compacted))
        => FailedWith("InvalidComponent")

\* C4 amended: a compacted string of length 5 to 9 with a non-digit character
\* fails with InvalidComponent
C4_NonDigitRejected ==
    (/\ call = "validate"
     /\ Normalized
     /\ Len(Compacted) >= 5 /\ Len(Compacted) <= 9
     /\ ~IsDigitString(Compacted))
        => FailedWith("InvalidComponent")

C4_Witness ==
    /\ call = "validate"
    /\ Normalized
    /\ Len(Compacted) = 9
    /\ Compacted[1] = Letter
    /\ IsDigitString(SubSeq(Compacted, 2, 9))
    /\ FailedWith("InvalidComponent")

\* C5: a string of exactly 8 digits, check digit included, whose value exceeds
\* 80000000 and whose check digit is correct is a company and not an individual
C5_EightDigitCompany ==
    (/\ call = "validate"
     /\ IsDigitString(arg)
     /\ Len(arg) = 8
     /\ DecimalValue(arg) > 80000000
     /\ Last(arg) = ExpectedDigit(Front(arg)))
        => (Succeeded /\ result.value.isCompany /\ ~result.value.isIndividual)

\* C6 as stated: validate("80000000") succeeds with both flags false
C6_Boundary8Digits ==
    (call = "validate" /\ arg = <<"8", "0", "0", "0", "0", "0", "0", "0">>)
        => (Succeeded /\ ~result.value.isIndividual /\ ~result.value.isCompany)

\* C6 amended: "80000000" is rejected with InvalidChecksum; the string whose
\* front is 80000000, "800000005", succeeds with both flags false
C6_BoundaryFront ==
    /\ (call = "validate" /\ arg = <<"8", "0", "0", "0", "0", "0", "0", "0">>)
           => FailedWith("InvalidChecksum")
    /\ (call = "validate" /\ arg = <<"8", "0", "0", "0", "0", "0", "0", "0", "5">>)
           => (Succeeded /\ ~result.value.isIndividual /\ ~result.value.isCompany)

C6_Witness ==
    /\ call = "validate"
    /\ arg = <<"8", "0", "0", "0", "0", "0", "0", "0", "5">>
    /\ Succeeded
    /\ result.value.compact = arg

C8_RoundTrip ==
    (/\ call = "compact(format)"
     /\ IsDigitString(input)
     /\ Len(input) >= 5 /\ Len(input) <= 9)
        => /\ arg = Front(input) \o <<"-", Last(input)>>
           /\ result = compact(input)
           /\ result = Return(input)

C8_Witness ==
    /\ call = "compact(format)"
    /\ IsDigitString(input)
    /\ Len(input) = 9
    /\ Len(arg) = 10
    /\ result = Return(input)

\* C9: validate returns, never throws, and returns the failure of the first
\* failing step in the order normalization, length, digits, checksum; success
\* only when all four pass
C9_FirstFailingStep ==
    call = "validate" =>
        /\ Returned
        /\ IF ~Normalized
             THEN result.value = Failure(clean(arg)[2])
           ELSE IF Len(Compacted) < 5 \/ Len(Compacted) > 9
             THEN result.value = Failure("InvalidLength")
           ELSE IF ~IsDigitString(Compacted)
             THEN result.value = Failure("InvalidComponent")
           ELSE IF Last(Compacted) # ExpectedDigit(Front(Compacted))
             THEN result.value = Failure("InvalidChecksum")
           ELSE result.value.isValid

\* a string failing both the length and the digit test reports the length
C9_Witness ==
    /\ call = "validate"
    /\ Normalized
    /\ Len(Compacted) > 9
    /\ ~IsDigitString(Compacted)
    /\ FailedWith("InvalidLength")

\* C10: when normalization gives v, format returns v without its last
\* character, a hyphen, and the last character of v, whatever v is; the result
\* has length |v| + 1; it is "-" for the empty v and "-c" for the one character c
C10_Format ==
    (call = "format" /\ Normalized) =>
        LET v == Compacted
        IN  /\ Returned
            /\ Len(result.value) = Len(v) + 1
            /\ Len(v) = 0 => result.value = <<"-">>
            /\ Len(v) = 1 => result.value = <<"-", v[1]>>
            /\ Len(v) > 1 => result.value = Front(v) \o <<"-", Last(v)>>

\* the empty compacted string, from an input made of separators only
C10_Witness ==
    /\ call = "format"
    /\ Normalized
    /\ Len(arg) > 0
    /\ Compacted = <<>>
    /\ result = Return(<<"-">>)

====
